---- MODULE Spec2Model ----
(***************************************************************************)
(* pants-jupyter-plugin: the PEX mount/unmount engine (PexManager), the    *)
(* facade that drives it (_PexEnvironmentBootstrapper._bootstrap_pex) and  *)
(* the cross-process creation lock (creation_lock).                        *)
(*                                                                         *)
(* A path is a sequence of components, <<"va", "lib">> for /va/lib; the    *)
(* empty string '' is <<>>.  A sys.path entry carries, next to the string  *)
(* the code stores, the number of the load whose mount appended it (0 for  *)
(* an entry the host interpreter started with); the same holds for the     *)
(* entries of PexManager.mounted.  The tag is history only: no action      *)
(* reads it.                                                               *)
(***************************************************************************)
EXTENDS Integers, Sequences, FiniteSets, TLC

VARIABLES
    sys_path,       \* sys.path
    sys_modules,    \* sys.modules: a set of [name, hasfile, dir]
    mounted,        \* PexManager.mounted (the Mount Record)
    disk,           \* top-level directories that exist on the filesystem
    fallback_pex,   \* PexManager._fallback_pex is not None
    pc,             \* where _bootstrap_pex stands
    cur_pex,        \* pex_path of the running / last _bootstrap_pex
    pending,        \* site paths the mount generator has still to append
    error,          \* exception of the last load ("none" when it succeeded)
    raised_in,      \* the generator that raised it
    loads,          \* number of _bootstrap_pex calls so far
    originating,    \* _ORIGINATING_SYS_MODULES_KEYS
    load_snap,      \* history: import state when the current load began
    mount_snap,     \* history: import state when mount() was last called, and
                    \* the load number of the last mount that reached its loop
    cycle,          \* history: progress of the last mount .. unmount cycle
    surfaced,       \* the exception the caller of the magic got from the last load
    attempts,       \* downloads and venv builds started by the current load
    magic_out,      \* how the last magic invocation ended
    target_exists,  \* creation_lock: path.exists()
    lock_holder,    \* creation_lock: process holding FileLock(path.lock), 0 if none
    lpc,            \* creation_lock: where each process stands
    token,          \* creation_lock: what each process was yielded
    body_result,    \* creation_lock: how each creator's body ended
    call_error,     \* the exception each process's current call raised
    ncalls,         \* number of repeated calls begun so far
    tmp_file,       \* download_once: each caller's temporary sibling file
    dest_file,      \* download_once: the file at the destination path
    transfers,      \* download_once: number of requests.get calls made
    mat_pex,        \* mount: the pex file the racing processes mount
    tool_file,      \* mount: the fallback pex tool is in the cache
    tool,           \* mount: the tool run_pex_tool runs in each process
    mpc,            \* mount: where each process stands in the locked block
    cmds,           \* mount: the subprocesses each process's call has run
    venv_tmp,       \* mount: each creator's temporary venv directory
    venv_state,     \* mount: the venv directory
    sites,          \* mount: the site paths each process's query returned
    seen,           \* history: the venv state each process's query ran against
    key_built,      \* cache key: venv directories, with what each was built for
    key_last,       \* cache key: the last mount and the directory it used
    message,        \* IncompatibleError: the lines of the last message built
    msg_args,       \* IncompatibleError: the arguments it was built from
    build_dir,      \* extraction: the entries under the build output directory
    extracted,      \* extraction: what _extract_resulting_binary did last
    exec_pc,        \* build: where the async_exec task stands
    spin_pc,        \* build: where the spin_driver task stands
    is_complete,    \* build: the asyncio.Event is set
    lines_read,     \* build: output lines displayed so far
    glyph,          \* build: index of the spinner glyph shown last
    run_result      \* build: how run_async ended

importState == <<sys_path, sys_modules, mounted>>
facadeVars == <<disk, fallback_pex, pc, cur_pex, pending, error, raised_in, loads,
                originating, load_snap, mount_snap, cycle, surfaced, attempts,
                magic_out>>
lockVars == <<target_exists, lock_holder, lpc, token, body_result>>
callVars == <<call_error, ncalls>>
dlVars == <<tmp_file, dest_file, transfers>>
matVars == <<mat_pex, tool_file, tool, mpc, cmds, venv_tmp, venv_state, sites, seen>>
keyVars == <<key_built, key_last>>
msgVars == <<message, msg_args>>
extractVars == <<build_dir, extracted>>
spinVars == <<exec_pc, spin_pc, is_complete, lines_read, glyph, run_result>>
pureVars == <<msgVars, extractVars, spinVars>>
detailVars == <<callVars, dlVars, matVars, keyVars, pureVars>>
vars == <<importState, facadeVars, lockVars, detailVars>>

(***************************************************************************)
(* Bounds                                                                  *)
(***************************************************************************)
MaxLoads == 3
NumProcs == 3
NumCallers == 2
MaxCalls == 2
NumChunks == 2
MaxBinaries == 2
MaxBlob == 2
MaxVenvs == 2
MaxListed == 2
MaxEntries == 3
MaxLines == 2

(***************************************************************************)
(* The filesystem and the artifacts of the modelled runs                   *)
(***************************************************************************)
EmptyEntry == <<>>
ZipEntry == <<"python.zip">>
HostSite == <<"host">>

Pexes == {"a.pex", "b.pex", "c.pex"}

\* venv = _CACHE / "venvs" / fingerprint / pex_to_mount.name
VenvDir(pex) ==
    CASE pex = "a.pex" -> "va"
      [] pex = "b.pex" -> "vb"
      [] OTHER -> "vc"

\* "pex_hash" in pex_info
HasPexHash(pex) == pex # "b.pex"

\* current_interpreter.samefile(selected_interpreter)
Compatible(pex) == pex # "c.pex"

\* site.getsitepackages() of the venv's python, one path per line
SitePackages(pex) ==
    CASE pex = "a.pex" -> << <<"va", "lib">>, <<"va", "lib64">> >>
      [] pex = "b.pex" -> << <<"vb", "lib">> >>
      [] OTHER -> << <<"vc", "lib">> >>

\* lib64 is a symbolic link to lib
Resolve(p) == [i \in DOMAIN p |-> IF p[i] = "lib64" THEN "lib" ELSE p[i]]

\* os.path.exists(entry)
Exists(p, d) == p # <<>> /\ p[1] \in d

\* Path.samefile: the stat of both operands is the same file
Samefile(p, q) == Resolve(p) = Resolve(q)

\* Path(module_path).parents, module_path a file in directory dir
Parents(dir) == {SubSeq(dir, 1, k) : k \in 1..Len(dir)}

ModuleNames == {"sys", "os", "colors", "yaml"}

ModuleHome(m) ==
    CASE m = "os" -> <<"host">>
      [] m = "colors" -> <<"va", "lib">>
      [] m = "yaml" -> <<"vb", "lib">>
      [] OTHER -> <<>>

PackageDir(m) == IF m = "colors" THEN <<"colors">> ELSE <<>>

Host(e) == [entry |-> e, gen |-> 0]
Module(m, d) == [name |-> m, hasfile |-> TRUE, dir |-> d]
Builtin(m) == [name |-> m, hasfile |-> FALSE, dir |-> <<>>]

Entries(path) == {path[i].entry : i \in DOMAIN path}
Recorded(rec) == {rec[i].path : i \in DOMAIN rec}
Loaded(mods) == {r.name : r \in mods}
Snapshot == [path |-> sys_path, modules |-> sys_modules, mounted |-> mounted]

(***************************************************************************)
(* PexManager.unmount                                                      *)
(***************************************************************************)
\* the filter of the sys.path comprehension
Keep(entry, rec, d) == entry # <<>> /\ Exists(entry, d) /\ ~Samefile(rec, entry)

\* pex_sys_path_entry.samefile(entry) stats pex_sys_path_entry first
SamefileRaises(path, rec, d) ==
    /\ ~Exists(rec, d)
    /\ \E i \in DOMAIN path : Exists(path[i].entry, d)

ScrubSysPath(path, rec, d) == SelectSeq(path, LAMBDA e : Keep(e.entry, rec, d))

ScrubSysModules(mods, rec) ==
    {r \in mods : ~(r.hasfile /\ rec \in Parents(r.dir))}

(***************************************************************************)
(* PexManager.mount: materialization (everything before the first append)  *)
(***************************************************************************)
Outcomes == {"ok", "info_failed", "download_failed", "venv_failed", "query_failed"}

\* The outcome of the code from the fingerprint to the site-path query, for
\* the subprocess and network results drawn as `outcome`.
EnsureVenv(pex, outcome, d, fallback) ==
    LET locked == VenvDir(pex) \notin d
        legacy == ~HasPexHash(pex)
        fetch == IF locked /\ legacy /\ ~fallback THEN 1 ELSE 0
        Fail(e, fb, dl, b) == [ok |-> FALSE, error |-> e, disk |-> d, fallback |-> fb,
                               downloads |-> dl, builds |-> b]
    IN  IF locked /\ outcome = "info_failed"
        THEN Fail("CalledProcessError", fallback, 0, 0)
        ELSE IF locked /\ legacy /\ ~fallback /\ outcome = "download_failed"
        THEN Fail("DownloadError", fallback, 1, 0)
        ELSE IF locked /\ ~Compatible(pex)
        THEN Fail("IncompatibleError", fallback \/ legacy, fetch, 0)
        ELSE IF locked /\ outcome = "venv_failed"
        THEN Fail("CalledProcessError", fallback \/ legacy, fetch, 1)
        ELSE IF outcome = "query_failed"
        THEN [ok |-> FALSE, error |-> "CalledProcessError",
              disk |-> d \cup {VenvDir(pex)}, fallback |-> fallback \/ (locked /\ legacy),
              downloads |-> fetch, builds |-> IF locked THEN 1 ELSE 0]
        ELSE [ok |-> TRUE, error |-> "none",
              disk |-> d \cup {VenvDir(pex)}, fallback |-> fallback \/ (locked /\ legacy),
              downloads |-> fetch, builds |-> IF locked THEN 1 ELSE 0]

\* sys.path.insert(0, path)
AppendSysPathFront(path, p, g) == <<[entry |-> p, gen |-> g]>> \o path

\* sys.path.append(path)
AppendSysPath(path, p, g) == Append(path, [entry |-> p, gen |-> g])

\* self.mounted.insert(0, path_entry)
RecordMountFront(rec, p, g) == <<[path |-> p, gen |-> g]>> \o rec

\* self.mounted.append(path_entry)
RecordMount(rec, p, g) == Append(rec, [path |-> p, gen |-> g])

(***************************************************************************)
(* _bootstrap_pex, one action per generator step                           *)
(***************************************************************************)
\* %pex_load <pex file>: _bootstrap_pex begins
PexLoad(pex) ==
    /\ pc = "idle"
    /\ loads < MaxLoads
    /\ pc' = "unmount"
    /\ cur_pex' = pex
    /\ loads' = loads + 1
    /\ error' = "none"
    /\ raised_in' = "none"
    /\ load_snap' = Snapshot
    /\ cycle' = IF cycle = "mounted" THEN "unmounting" ELSE "none"
    /\ attempts' = [downloads |-> 0, builds |-> 0]
    /\ magic_out' = [kind |-> "bootstrap", code |-> 0]
    /\ UNCHANGED <<importState, disk, fallback_pex, pending, originating, mount_snap,
                   surfaced>>
    /\ UNCHANGED <<lockVars, detailVars>>

\* an unmount iteration that pops the record and leaves sys.path alone
UnmountStepRecordOnly ==
    /\ pc = "unmount"
    /\ mounted # <<>>
    /\ mounted' = SubSeq(mounted, 1, Len(mounted) - 1)
    /\ sys_modules' = ScrubSysModules(sys_modules, mounted[Len(mounted)].path)
    /\ UNCHANGED <<sys_path, disk, fallback_pex, pc, cur_pex, pending, error,
                   raised_in, loads, originating, load_snap, mount_snap, cycle,
                   surfaced, attempts, magic_out>>
    /\ UNCHANGED <<lockVars, detailVars>>

\* one iteration of unmount's while loop, up to its yield or its raise
UnmountStep ==
    /\ pc = "unmount"
    /\ mounted # <<>>
    /\ LET rec == mounted[Len(mounted)].path
       IN  /\ mounted' = SubSeq(mounted, 1, Len(mounted) - 1)
           /\ IF SamefileRaises(sys_path, rec, disk)
              THEN /\ UNCHANGED <<sys_path, sys_modules>>
                   /\ pc' = "except"
                   /\ error' = "FileNotFoundError"
                   /\ raised_in' = "unmount"
                   /\ cycle' = "none"
              ELSE /\ sys_path' = ScrubSysPath(sys_path, rec, disk)
                   /\ sys_modules' = ScrubSysModules(sys_modules, rec)
                   /\ UNCHANGED <<pc, error, raised_in, cycle>>
    /\ UNCHANGED <<disk, fallback_pex, cur_pex, pending, loads, originating,
                   load_snap, mount_snap, surfaced, attempts,
                   magic_out>>
    /\ UNCHANGED <<lockVars, detailVars>>

\* the facade goes on to mount without draining the unmount generator
UnmountNotDrained ==
    /\ pc = "unmount"
    /\ pc' = "materialize"
    /\ cycle' = "none"
    /\ UNCHANGED <<importState, disk, fallback_pex, cur_pex, pending, error,
                   raised_in, loads, originating, load_snap, mount_snap,
                   surfaced, attempts,
                   magic_out>>
    /\ UNCHANGED <<lockVars, detailVars>>

\* unmount's while loop ends; the facade calls mount(pex_path)
UnmountDone ==
    /\ pc = "unmount"
    /\ mounted = <<>>
    /\ pc' = "materialize"
    /\ cycle' = IF cycle = "unmounting" THEN "unmounted" ELSE "none"
    /\ UNCHANGED <<importState, disk, fallback_pex, cur_pex, pending, error,
                   raised_in, loads, originating, load_snap, mount_snap,
                   surfaced, attempts,
                   magic_out>>
    /\ UNCHANGED <<lockVars, detailVars>>

\* a mount that appends the expected site paths before it materializes
MountMaterializeEager(outcome) ==
    /\ pc = "materialize"
    /\ LET res == EnsureVenv(cur_pex, outcome, disk, fallback_pex)
           first == Head(SitePackages(cur_pex))
       IN  /\ disk' = res.disk
           /\ fallback_pex' = res.fallback
           /\ attempts' = [downloads |-> res.downloads, builds |-> res.builds]
           /\ mount_snap' = [path |-> sys_path, modules |-> sys_modules,
                              mounted |-> mounted,
                              gen |-> IF res.ok THEN loads ELSE mount_snap.gen]
           /\ sys_path' = AppendSysPath(sys_path, first, loads)
           /\ mounted' = RecordMount(mounted, first, loads)
           /\ UNCHANGED sys_modules
           /\ IF res.ok
              THEN /\ pc' = "mount"
                   /\ pending' = Tail(SitePackages(cur_pex))
                   /\ cycle' = "mounting"
                   /\ UNCHANGED <<error, raised_in>>
              ELSE /\ pc' = "except"
                   /\ error' = res.error
                   /\ raised_in' = "mount"
                   /\ cycle' = "none"
                   /\ UNCHANGED pending
    /\ UNCHANGED <<cur_pex, loads, originating, load_snap, surfaced,
                   magic_out>>
    /\ UNCHANGED <<lockVars, detailVars>>

\* the first next() of the mount generator, up to the for loop
MountMaterialize(outcome) ==
    /\ pc = "materialize"
    /\ LET res == EnsureVenv(cur_pex, outcome, disk, fallback_pex)
       IN  /\ disk' = res.disk
           /\ fallback_pex' = res.fallback
           /\ attempts' = [downloads |-> res.downloads, builds |-> res.builds]
           /\ mount_snap' = [path |-> sys_path, modules |-> sys_modules,
                              mounted |-> mounted,
                              gen |-> IF res.ok THEN loads ELSE mount_snap.gen]
           /\ IF res.ok
              THEN /\ pc' = "mount"
                   /\ pending' = SitePackages(cur_pex)
                   /\ cycle' = "mounting"
                   /\ UNCHANGED <<error, raised_in>>
              ELSE /\ pc' = "except"
                   /\ error' = res.error
                   /\ raised_in' = "mount"
                   /\ cycle' = "none"
                   /\ UNCHANGED pending
    /\ UNCHANGED <<importState, cur_pex, loads, originating, load_snap, surfaced,
                   magic_out>>
    /\ UNCHANGED <<lockVars, detailVars>>

\* one iteration of mount's for loop, up to its yield
MountStep ==
    /\ pc = "mount"
    /\ pending # <<>>
    /\ sys_path' = AppendSysPath(sys_path, Head(pending), loads)
    /\ mounted' = RecordMount(mounted, Head(pending), loads)
    /\ pending' = Tail(pending)
    /\ UNCHANGED <<sys_modules, disk, fallback_pex, pc, cur_pex, error, raised_in,
                   loads, originating, load_snap, mount_snap, cycle, surfaced,
                   attempts,
                   magic_out>>
    /\ UNCHANGED <<lockVars, detailVars>>

\* mount's for loop ends: the else branch of _bootstrap_pex
MountDone ==
    /\ pc = "mount"
    /\ pending = <<>>
    /\ pc' = "idle"
    /\ cycle' = "mounted"
    /\ surfaced' = "none"
    /\ UNCHANGED <<importState, disk, fallback_pex, cur_pex, pending, error,
                   raised_in, loads, originating, load_snap, mount_snap, attempts,
                   magic_out>>
    /\ UNCHANGED <<lockVars, detailVars>>

\* an except clause that shows the failure glyph and does not re-raise
BootstrapSwallow ==
    /\ pc = "except"
    /\ pc' = "idle"
    /\ surfaced' = "none"
    /\ UNCHANGED <<importState, disk, fallback_pex, cur_pex, pending, error,
                   raised_in, loads, originating, load_snap, mount_snap, cycle,
                   attempts,
                   magic_out>>
    /\ UNCHANGED <<lockVars, detailVars>>

\* except Exception: set_output_glyph(FAIL_GLYPH); expand(); raise
BootstrapExcept ==
    /\ pc = "except"
    /\ pc' = "idle"
    /\ surfaced' = error
    /\ UNCHANGED <<importState, disk, fallback_pex, cur_pex, pending, error,
                   raised_in, loads, originating, load_snap, mount_snap, cycle,
                   attempts,
                   magic_out>>
    /\ UNCHANGED <<lockVars, detailVars>>

\* self._display_line(f"added sys.path entry {path}\n") raises after a yield
\* of the mount generator: the for loop of _bootstrap_pex is left, the
\* generator is never resumed
MountAbandon ==
    /\ pc = "mount"
    /\ mounted # <<>>
    /\ pc' = "except"
    /\ error' = "OSError"
    /\ raised_in' = "display"
    /\ cycle' = "none"
    /\ UNCHANGED <<importState, disk, fallback_pex, cur_pex, pending, loads,
                   originating, load_snap, mount_snap, surfaced, attempts,
                   magic_out>>
    /\ UNCHANGED <<lockVars, detailVars>>

(***************************************************************************)
(* The magics in front of _bootstrap_pex                                   *)
(***************************************************************************)
Magics == {"pex_load", "requirements_load", "pants_load"}

\* the line handed to the magic: '', blanks only, a path with blanks around
\* it, a path that is not on disk, a proper argument
ArgKinds == {"empty", "blank", "padded", "missing", "good"}

\* self._pants_repo: None, a path that is no pants repo any more, a pants repo
RepoStates == {"none", "invalid", "valid"}

\* an invocation: the magic, its line, the recorded repo, and what the build
\* command does when the magic gets as far as running it
Invocation(m, a, r, e, b) ==
    [magic |-> m, arg |-> a, repo |-> r, exit |-> e, binaries |-> b]

Builds == {[exit |-> e, binaries |-> b] : e \in {0, 2}, b \in 0..MaxBinaries}

Invocations ==
    {Invocation("pex_load", a, "none", 0, 1) : a \in ArgKinds}
        \cup {Invocation(m, "empty", r, 0, 1) : m \in Magics \ {"pex_load"}, r \in RepoStates}
        \cup {Invocation("pants_load", a, r, 0, 1) :
                  a \in {"blank", "good"}, r \in {"none", "invalid"}}
        \cup {Invocation("pants_load", "blank", "valid", 0, 1)}
        \cup {Invocation("requirements_load", a, "none", bd.exit, bd.binaries) :
                  a \in {"blank", "good"}, bd \in Builds}
        \cup {Invocation("pants_load", "good", "valid", bd.exit, bd.binaries) : bd \in Builds}

\* _stream_binary_build_with_output: run_async, then _extract_resulting_binary
BuildOutcome(inv) ==
    IF inv.exit # 0 THEN [kind |-> "SubprocessFailure", code |-> inv.exit]
    ELSE IF inv.binaries # 1 THEN [kind |-> "BuildFailure", code |-> 0]
    ELSE [kind |-> "bootstrap", code |-> 0]

\* what pex_load, requirements_load and pants_load do with their argument
MagicOutcome(inv) ==
    CASE inv.magic = "pex_load" ->
            IF inv.arg \in {"empty", "blank", "padded"}
            THEN [kind |-> "usage", code |-> 0]
            ELSE IF inv.arg = "missing" THEN [kind |-> "not_found", code |-> 0]
            ELSE [kind |-> "bootstrap", code |-> 0]
      [] inv.magic = "requirements_load" ->
            IF inv.arg = "empty" THEN [kind |-> "usage", code |-> 0]
            ELSE BuildOutcome(inv)
      [] OTHER ->
            IF inv.repo = "none" THEN [kind |-> "no_repo", code |-> 0]
            ELSE IF inv.arg \in {"empty", "blank"} THEN [kind |-> "usage", code |-> 0]
            ELSE IF inv.repo = "invalid" THEN [kind |-> "invalid_repo", code |-> 0]
            ELSE BuildOutcome(inv)

\* a magic that drops the Mount Record before it looks at its argument
MagicRejectedScrub(inv) ==
    /\ pc = "idle"
    /\ MagicOutcome(inv).kind # "bootstrap"
    /\ magic_out' = MagicOutcome(inv)
    /\ mounted' = <<>>
    /\ UNCHANGED <<sys_path, sys_modules, disk, fallback_pex, pc, cur_pex, pending,
                   error, raised_in, loads, originating, load_snap, mount_snap,
                   cycle, surfaced, attempts>>
    /\ UNCHANGED <<lockVars, detailVars>>

\* a magic invocation that returns or raises before self._bootstrap_pex(..)
MagicRejected(inv) ==
    /\ pc = "idle"
    /\ MagicOutcome(inv).kind # "bootstrap"
    /\ magic_out' = MagicOutcome(inv)
    /\ UNCHANGED <<importState, disk, fallback_pex, pc, cur_pex, pending,
                   error, raised_in, loads, originating, load_snap, mount_snap,
                   cycle, surfaced, attempts>>
    /\ UNCHANGED <<lockVars, detailVars>>

(***************************************************************************)
(* The notebook around the plugin                                          *)
(***************************************************************************)
\* the sys.path positions at which the import system finds module m
Finds(path, m, d) ==
    {i \in DOMAIN path : Exists(path[i].entry, d) /\ Resolve(path[i].entry) = ModuleHome(m)}

\* a cell runs `import m`
Import(m) ==
    /\ pc = "idle"
    /\ m \notin Loaded(sys_modules)
    /\ Finds(sys_path, m, disk) # {}
    /\ LET i == CHOOSE k \in Finds(sys_path, m, disk) :
                    \A j \in Finds(sys_path, m, disk) : k <= j
       IN  sys_modules' = sys_modules \cup {Module(m, sys_path[i].entry \o PackageDir(m))}
    /\ cycle' = "none"
    /\ UNCHANGED <<sys_path, mounted, disk, fallback_pex, pc, cur_pex, pending, error,
                   raised_in, loads, originating, load_snap, mount_snap,
                   surfaced, attempts,
                   magic_out>>
    /\ UNCHANGED <<lockVars, detailVars>>

\* a cached venv directory is deleted from the disk (by anyone, at any time)
RemoveDir(dir) ==
    /\ dir \in disk \ {"host"}
    /\ disk' = disk \ {dir}
    /\ UNCHANGED <<importState, fallback_pex, pc, cur_pex, pending, error, raised_in,
                   loads, originating, load_snap, mount_snap, cycle, surfaced,
                   attempts,
                   magic_out>>
    /\ UNCHANGED <<lockVars, detailVars>>

(***************************************************************************)
(* creation_lock, raced by NumProcs processes on one target path           *)
(***************************************************************************)
Procs == 1..NumProcs

\* a lock that is granted although another process holds it
CanAcquireHeld(holder) == TRUE

\* FileLock(lock_file) is acquired only while no process holds it
CanAcquire(holder) == holder = 0

\* no second existence check under the lock
YieldedUnchecked(exists) == "lock_file"

\* yield None if path.exists() else lock_file
Yielded(exists) == IF exists THEN "None" ELSE "lock_file"

\* an entry without the first existence check: every caller goes for the lock
LockEnterNoFastPath(p) ==
    /\ lpc[p] = "start"
    /\ lpc' = [lpc EXCEPT ![p] = "wait"]
    /\ UNCHANGED <<target_exists, lock_holder, token, body_result>>
    /\ UNCHANGED <<importState, facadeVars, detailVars>>

\* if path.exists(): yield None; return  /  path.parent.mkdir(...)
LockEnter(p) ==
    /\ lpc[p] = "start"
    /\ IF target_exists
       THEN /\ token' = [token EXCEPT ![p] = "None"]
            /\ body_result' = [body_result EXCEPT ![p] = "fast"]
            /\ lpc' = [lpc EXCEPT ![p] = "body"]
       ELSE /\ lpc' = [lpc EXCEPT ![p] = "wait"]
            /\ UNCHANGED <<token, body_result>>
    /\ UNCHANGED <<target_exists, lock_holder>>
    /\ UNCHANGED <<importState, facadeVars, detailVars>>

\* with FileLock(lock_file): blocks until the lock is free
LockAcquire(p) ==
    /\ lpc[p] = "wait"
    /\ CanAcquire(lock_holder)
    /\ lock_holder' = p
    /\ lpc' = [lpc EXCEPT ![p] = "locked"]
    /\ UNCHANGED <<target_exists, token, body_result>>
    /\ UNCHANGED <<importState, facadeVars, detailVars>>

\* the second path.exists(), made while holding the lock
LockRecheck(p) ==
    /\ lpc[p] = "locked"
    /\ token' = [token EXCEPT ![p] = Yielded(target_exists)]
    /\ lpc' = [lpc EXCEPT ![p] = "body"]
    /\ UNCHANGED <<target_exists, lock_holder, body_result>>
    /\ UNCHANGED <<importState, facadeVars, detailVars>>

\* the creator's body ends with tmp.rename(path)
BodyCreate(p) ==
    /\ lpc[p] = "body"
    /\ token[p] = "lock_file"
    /\ target_exists' = TRUE
    /\ body_result' = [body_result EXCEPT ![p] = "created"]
    /\ lpc' = [lpc EXCEPT ![p] = "exit"]
    /\ UNCHANGED <<lock_holder, token>>
    /\ UNCHANGED <<importState, facadeVars, detailVars>>

\* the creator's body raises (DownloadError, IncompatibleError, ...)
BodyRaise(p) ==
    /\ lpc[p] = "body"
    /\ token[p] = "lock_file"
    /\ body_result' = [body_result EXCEPT ![p] = "raised"]
    /\ lpc' = [lpc EXCEPT ![p] = "exit"]
    /\ UNCHANGED <<target_exists, lock_holder, token>>
    /\ UNCHANGED <<importState, facadeVars, detailVars>>

\* if locked: is false, the body does nothing
BodySkip(p) ==
    /\ lpc[p] = "body"
    /\ token[p] = "None"
    /\ body_result' = [body_result EXCEPT ![p] =
                          IF body_result[p] = "fast" THEN "fast" ELSE "skipped"]
    /\ lpc' = [lpc EXCEPT ![p] = "exit"]
    /\ UNCHANGED <<target_exists, lock_holder, token>>
    /\ UNCHANGED <<importState, facadeVars, detailVars>>

\* a lock that is never given back
LockExitKeep(p) ==
    /\ lpc[p] = "exit"
    /\ lpc' = [lpc EXCEPT ![p] = "done"]
    /\ UNCHANGED <<target_exists, lock_holder, token, body_result>>
    /\ UNCHANGED <<importState, facadeVars, detailVars>>

\* a lock that stays held when the body raised
LockExitLeak(p) ==
    /\ lpc[p] = "exit"
    /\ lock_holder' = IF lock_holder = p /\ body_result[p] # "raised"
                       THEN 0 ELSE lock_holder
    /\ lpc' = [lpc EXCEPT ![p] = "done"]
    /\ UNCHANGED <<target_exists, token, body_result>>
    /\ UNCHANGED <<importState, facadeVars, detailVars>>

\* the with block is left: FileLock.__exit__ releases the lock
LockExit(p) ==
    /\ lpc[p] = "exit"
    /\ lock_holder' = IF lock_holder = p THEN 0 ELSE lock_holder
    /\ lpc' = [lpc EXCEPT ![p] = "done"]
    /\ UNCHANGED <<target_exists, token, body_result>>
    /\ UNCHANGED <<importState, facadeVars, detailVars>>

(***************************************************************************)
(* Pex.download_once, raced and repeated by the callers on one path        *)
(***************************************************************************)
\* the processes that call download_once and mount
Callers == 1..NumCallers

NoFile == [state |-> "none", chunks |-> 0, ok |-> FALSE, kind |-> "none", exec |-> FALSE]

\* what the server answers: a status and a body, or no connection at all
Responses ==
    {[conn |-> TRUE, ok |-> o, kind |-> k] : o \in BOOLEAN, k \in {"zip", "html"}}
        \cup {[conn |-> FALSE, ok |-> FALSE, kind |-> "none"]}

\* an exception leaves the `if locked:` block of process p
RaiseInBody(p, e) ==
    /\ call_error' = [call_error EXCEPT ![p] = e]
    /\ body_result' = [body_result EXCEPT ![p] = "raised"]
    /\ lpc' = [lpc EXCEPT ![p] = "exit"]

\* a download that does not look at `locked`
DlGetUnlocked(p, resp) ==
    /\ lpc[p] = "body"
    /\ tmp_file[p].state = "none"
    /\ transfers' = transfers + 1
    /\ IF ~resp.conn
       THEN /\ RaiseInBody(p, "ConnectionError")
            /\ UNCHANGED tmp_file
       ELSE /\ tmp_file' = [tmp_file EXCEPT ![p] =
                               [state |-> "open", chunks |-> 0, ok |-> resp.ok,
                                kind |-> resp.kind, exec |-> FALSE]]
            /\ IF ~resp.ok
               THEN RaiseInBody(p, "DownloadError")
               ELSE UNCHANGED <<call_error, body_result, lpc>>
    /\ UNCHANGED <<target_exists, lock_holder, token, ncalls, dest_file>>
    /\ UNCHANGED <<importState, facadeVars, matVars, keyVars, pureVars>>

\* if locked: requests.get(url, stream=True), download_to.open("wb"),
\* if not response.ok: raise DownloadError
DlGet(p, resp) ==
    /\ lpc[p] = "body"
    /\ token[p] = "lock_file"
    /\ tmp_file[p].state = "none"
    /\ transfers' = transfers + 1
    /\ IF ~resp.conn
       THEN /\ RaiseInBody(p, "ConnectionError")
            /\ UNCHANGED tmp_file
       ELSE /\ tmp_file' = [tmp_file EXCEPT ![p] =
                               [state |-> "open", chunks |-> 0, ok |-> resp.ok,
                                kind |-> resp.kind, exec |-> FALSE]]
            /\ IF ~resp.ok
               THEN RaiseInBody(p, "DownloadError")
               ELSE UNCHANGED <<call_error, body_result, lpc>>
    /\ UNCHANGED <<target_exists, lock_holder, token, ncalls, dest_file>>
    /\ UNCHANGED <<importState, facadeVars, matVars, keyVars, pureVars>>

\* for chunk in response.iter_content(...): fp.write(chunk); the stream may break
DlChunk(p, delivered) ==
    /\ lpc[p] = "body"
    /\ token[p] = "lock_file"
    /\ tmp_file[p].state = "open"
    /\ tmp_file[p].chunks < NumChunks
    /\ IF delivered
       THEN /\ tmp_file' = [tmp_file EXCEPT ![p].chunks = @ + 1]
            /\ UNCHANGED <<call_error, body_result, lpc>>
       ELSE /\ RaiseInBody(p, "ConnectionError")
            /\ UNCHANGED tmp_file
    /\ UNCHANGED <<target_exists, lock_holder, token, ncalls, dest_file, transfers>>
    /\ UNCHANGED <<importState, facadeVars, matVars, keyVars, pureVars>>

\* post_process(download_to): activate_pex
DlPostProcess(p) ==
    /\ lpc[p] = "body"
    /\ token[p] = "lock_file"
    /\ tmp_file[p].state = "open"
    /\ tmp_file[p].chunks = NumChunks
    /\ IF tmp_file[p].kind = "zip"
       THEN /\ tmp_file' = [tmp_file EXCEPT ![p].state = "processed", ![p].exec = TRUE]
            /\ UNCHANGED <<call_error, body_result, lpc>>
       ELSE /\ RaiseInBody(p, "DownloadError")
            /\ UNCHANGED tmp_file
    /\ UNCHANGED <<target_exists, lock_holder, token, ncalls, dest_file, transfers>>
    /\ UNCHANGED <<importState, facadeVars, matVars, keyVars, pureVars>>

\* a rename that does not wait for the stream and post_process
DlRenameEarly(p) ==
    /\ lpc[p] = "body"
    /\ token[p] = "lock_file"
    /\ tmp_file[p].state # "none"
    /\ dest_file' = [tmp_file[p] EXCEPT !.state = "file"]
    /\ tmp_file' = [tmp_file EXCEPT ![p] = NoFile]
    /\ target_exists' = TRUE
    /\ body_result' = [body_result EXCEPT ![p] = "created"]
    /\ lpc' = [lpc EXCEPT ![p] = "exit"]
    /\ UNCHANGED <<lock_holder, token, call_error, ncalls, transfers>>
    /\ UNCHANGED <<importState, facadeVars, matVars, keyVars, pureVars>>

\* download_to.rename(path)
DlRename(p) ==
    /\ lpc[p] = "body"
    /\ token[p] = "lock_file"
    /\ tmp_file[p].state = "processed"
    /\ dest_file' = [tmp_file[p] EXCEPT !.state = "file"]
    /\ tmp_file' = [tmp_file EXCEPT ![p] = NoFile]
    /\ target_exists' = TRUE
    /\ body_result' = [body_result EXCEPT ![p] = "created"]
    /\ lpc' = [lpc EXCEPT ![p] = "exit"]
    /\ UNCHANGED <<lock_holder, token, call_error, ncalls, transfers>>
    /\ UNCHANGED <<importState, facadeVars, matVars, keyVars, pureVars>>

\* the process calls Pex.download_once(url, download_to) again
DlAgain(p) ==
    /\ lpc[p] = "done"
    /\ ncalls < MaxCalls
    /\ ncalls' = ncalls + 1
    /\ lpc' = [lpc EXCEPT ![p] = "start"]
    /\ token' = [token EXCEPT ![p] = "unset"]
    /\ body_result' = [body_result EXCEPT ![p] = "none"]
    /\ call_error' = [call_error EXCEPT ![p] = "none"]
    /\ tmp_file' = [tmp_file EXCEPT ![p] = NoFile]
    /\ UNCHANGED <<target_exists, lock_holder, dest_file, transfers>>
    /\ UNCHANGED <<importState, facadeVars, matVars, keyVars, pureVars>>

(***************************************************************************)
(* PexManager.mount up to the site-path query, raced and repeated by the   *)
(* processes on one (interpreter, pex file) pair                           *)
(***************************************************************************)
\* one subprocess.run (or download) of a call: what ran, with which pex tool
Cmd(c, t, ok) == [cmd |-> c, tool |-> t, ok |-> ok]

Ran(p, c) == {i \in DOMAIN cmds[p] : cmds[p][i].cmd = c}

\* the processes are handed the same pex file to mount
MatChoose(pex) ==
    /\ mat_pex = "none"
    /\ mat_pex' = pex
    /\ UNCHANGED <<tool_file, tool, mpc, cmds, venv_tmp, venv_state, sites, seen>>
    /\ UNCHANGED <<importState, facadeVars, lockVars, callVars, dlVars, keyVars, pureVars>>

\* with creation_lock(venv) as locked:
MatEnter(p) ==
    /\ mat_pex # "none"
    /\ LockEnter(p)

\* an introspection that does not look at `locked`
MatInfoUnlocked(p, ok) ==
    /\ lpc[p] = "body"
    /\ mpc[p] = "info"
    /\ cmds' = [cmds EXCEPT ![p] = Append(@, Cmd("info", tool[p], ok))]
    /\ IF ok
       THEN /\ mpc' = [mpc EXCEPT ![p] =
                          IF HasPexHash(mat_pex) THEN "select" ELSE "fallback"]
            /\ UNCHANGED <<call_error, body_result, lpc>>
       ELSE /\ RaiseInBody(p, "CalledProcessError")
            /\ UNCHANGED mpc
    /\ UNCHANGED <<target_exists, lock_holder, token, ncalls>>
    /\ UNCHANGED <<mat_pex, tool_file, tool, venv_tmp, venv_state, sites, seen>>
    /\ UNCHANGED <<importState, facadeVars, dlVars, keyVars, pureVars>>

\* if locked: pex = self.pex; pex_info = json.loads(run_pex_tool(["info"]))
MatInfo(p, ok) ==
    /\ lpc[p] = "body"
    /\ token[p] = "lock_file"
    /\ mpc[p] = "info"
    /\ cmds' = [cmds EXCEPT ![p] = Append(@, Cmd("info", tool[p], ok))]
    /\ IF ok
       THEN /\ mpc' = [mpc EXCEPT ![p] =
                          IF HasPexHash(mat_pex) THEN "select" ELSE "fallback"]
            /\ UNCHANGED <<call_error, body_result, lpc>>
       ELSE /\ RaiseInBody(p, "CalledProcessError")
            /\ UNCHANGED mpc
    /\ UNCHANGED <<target_exists, lock_holder, token, ncalls>>
    /\ UNCHANGED <<mat_pex, tool_file, tool, venv_tmp, venv_state, sites, seen>>
    /\ UNCHANGED <<importState, facadeVars, dlVars, keyVars, pureVars>>

\* a fallback that downloads the older tool and goes on with the primary one
MatFallbackKeepPrimary(p, ok) ==
    /\ lpc[p] = "body"
    /\ token[p] = "lock_file"
    /\ mpc[p] = "fallback"
    /\ IF tool_file \/ ok
       THEN /\ tool_file' = TRUE
            /\ mpc' = [mpc EXCEPT ![p] = "select"]
            /\ cmds' = [cmds EXCEPT ![p] =
                           IF tool_file THEN @ ELSE Append(@, Cmd("download", "fallback", TRUE))]
            /\ UNCHANGED <<call_error, body_result, lpc>>
       ELSE /\ cmds' = [cmds EXCEPT ![p] = Append(@, Cmd("download", "fallback", FALSE))]
            /\ RaiseInBody(p, "DownloadError")
            /\ UNCHANGED <<tool_file, mpc>>
    /\ UNCHANGED <<target_exists, lock_holder, token, ncalls>>
    /\ UNCHANGED <<mat_pex, tool, venv_tmp, venv_state, sites, seen>>
    /\ UNCHANGED <<importState, facadeVars, dlVars, keyVars, pureVars>>

\* if "pex_hash" not in pex_info: pex = self.fallback_pex
\* (Pex.load(FALLBACK_VERSION) downloads the tool unless it is in the cache)
MatFallback(p, ok) ==
    /\ lpc[p] = "body"
    /\ token[p] = "lock_file"
    /\ mpc[p] = "fallback"
    /\ IF tool_file \/ ok
       THEN /\ tool_file' = TRUE
            /\ tool' = [tool EXCEPT ![p] = "fallback"]
            /\ mpc' = [mpc EXCEPT ![p] = "select"]
            /\ cmds' = [cmds EXCEPT ![p] =
                           IF tool_file THEN @ ELSE Append(@, Cmd("download", "fallback", TRUE))]
            /\ UNCHANGED <<call_error, body_result, lpc>>
       ELSE /\ cmds' = [cmds EXCEPT ![p] = Append(@, Cmd("download", "fallback", FALSE))]
            /\ RaiseInBody(p, "DownloadError")
            /\ UNCHANGED <<tool_file, tool, mpc>>
    /\ UNCHANGED <<target_exists, lock_holder, token, ncalls>>
    /\ UNCHANGED <<mat_pex, venv_tmp, venv_state, sites, seen>>
    /\ UNCHANGED <<importState, facadeVars, dlVars, keyVars, pureVars>>

\* a selection whose mismatch is not an error
MatSelectLenient(p, ok, listed) ==
    /\ lpc[p] = "body"
    /\ token[p] = "lock_file"
    /\ mpc[p] = "select"
    /\ IF ~ok
       THEN /\ cmds' = [cmds EXCEPT ![p] = Append(@, Cmd("interpreter", tool[p], FALSE))]
            /\ RaiseInBody(p, "CalledProcessError")
            /\ UNCHANGED mpc
       ELSE /\ cmds' = [cmds EXCEPT ![p] = Append(@, Cmd("interpreter", tool[p], TRUE))]
            /\ mpc' = [mpc EXCEPT ![p] = "build"]
            /\ UNCHANGED <<call_error, body_result, lpc>>
    /\ UNCHANGED <<target_exists, lock_holder, token, ncalls>>
    /\ UNCHANGED <<mat_pex, tool_file, tool, venv_tmp, venv_state, sites, seen>>
    /\ UNCHANGED <<importState, facadeVars, dlVars, keyVars, pureVars>>

\* run_pex_tool(["interpreter", "-v"]); if not current_interpreter.samefile(..):
\* run_pex_tool(["interpreter", "--all", "-v"]); raise IncompatibleError
MatSelect(p, ok, listed) ==
    /\ lpc[p] = "body"
    /\ token[p] = "lock_file"
    /\ mpc[p] = "select"
    /\ IF ~ok
       THEN /\ cmds' = [cmds EXCEPT ![p] = Append(@, Cmd("interpreter", tool[p], FALSE))]
            /\ RaiseInBody(p, "CalledProcessError")
            /\ UNCHANGED mpc
       ELSE IF Compatible(mat_pex)
       THEN /\ cmds' = [cmds EXCEPT ![p] = Append(@, Cmd("interpreter", tool[p], TRUE))]
            /\ mpc' = [mpc EXCEPT ![p] = "build"]
            /\ UNCHANGED <<call_error, body_result, lpc>>
       ELSE /\ cmds' = [cmds EXCEPT ![p] =
                           @ \o <<Cmd("interpreter", tool[p], TRUE),
                                  Cmd("interpreter --all", tool[p], listed)>>]
            /\ RaiseInBody(p, IF listed THEN "IncompatibleError"
                                        ELSE "CalledProcessError")
            /\ UNCHANGED mpc
    /\ UNCHANGED <<target_exists, lock_holder, token, ncalls>>
    /\ UNCHANGED <<mat_pex, tool_file, tool, venv_tmp, venv_state, sites, seen>>
    /\ UNCHANGED <<importState, facadeVars, dlVars, keyVars, pureVars>>

\* a build that writes into the venv directory itself
MatBuildStartInPlace(p) ==
    /\ lpc[p] = "body"
    /\ token[p] = "lock_file"
    /\ mpc[p] = "build"
    /\ venv_state' = "partial"
    /\ target_exists' = TRUE
    /\ venv_tmp' = [venv_tmp EXCEPT ![p] = "partial"]
    /\ mpc' = [mpc EXCEPT ![p] = "building"]
    /\ UNCHANGED <<lock_holder, lpc, token, body_result, callVars>>
    /\ UNCHANGED <<mat_pex, tool_file, tool, cmds, sites, seen>>
    /\ UNCHANGED <<importState, facadeVars, dlVars, keyVars, pureVars>>

\* venv_tmp = venv.parent / f"{venv.name}.{uuid4().hex}"; the venv tool starts
\* to write it
MatBuildStart(p) ==
    /\ lpc[p] = "body"
    /\ token[p] = "lock_file"
    /\ mpc[p] = "build"
    /\ venv_tmp' = [venv_tmp EXCEPT ![p] = "partial"]
    /\ mpc' = [mpc EXCEPT ![p] = "building"]
    /\ UNCHANGED <<lockVars, callVars>>
    /\ UNCHANGED <<mat_pex, tool_file, tool, cmds, venv_state, sites, seen>>
    /\ UNCHANGED <<importState, facadeVars, dlVars, keyVars, pureVars>>

\* run_pex_tool(["venv", str(venv_tmp)]) returns or fails
MatBuildEnd(p, ok) ==
    /\ lpc[p] = "body"
    /\ token[p] = "lock_file"
    /\ mpc[p] = "building"
    /\ cmds' = [cmds EXCEPT ![p] = Append(@, Cmd("venv", tool[p], ok))]
    /\ IF ok
       THEN /\ venv_tmp' = [venv_tmp EXCEPT ![p] = "complete"]
            /\ mpc' = [mpc EXCEPT ![p] = "rename"]
            /\ UNCHANGED <<call_error, body_result, lpc>>
       ELSE /\ RaiseInBody(p, "CalledProcessError")
            /\ UNCHANGED <<venv_tmp, mpc>>
    /\ UNCHANGED <<target_exists, lock_holder, token, ncalls>>
    /\ UNCHANGED <<mat_pex, tool_file, tool, venv_state, sites, seen>>
    /\ UNCHANGED <<importState, facadeVars, dlVars, keyVars, pureVars>>

\* venv_tmp.rename(venv)
MatRename(p) ==
    /\ lpc[p] = "body"
    /\ token[p] = "lock_file"
    /\ mpc[p] = "rename"
    /\ venv_state' = venv_tmp[p]
    /\ venv_tmp' = [venv_tmp EXCEPT ![p] = "none"]
    /\ target_exists' = TRUE
    /\ body_result' = [body_result EXCEPT ![p] = "created"]
    /\ lpc' = [lpc EXCEPT ![p] = "exit"]
    /\ UNCHANGED <<lock_holder, token, callVars>>
    /\ UNCHANGED <<mat_pex, tool_file, tool, mpc, cmds, sites, seen>>
    /\ UNCHANGED <<importState, facadeVars, dlVars, keyVars, pureVars>>

\* after the with block: subprocess.run([venv/bin/python, "-c", "import os,
\* site; ..."], check=True)
MatQuery(p, ok) ==
    /\ lpc[p] = "done"
    /\ call_error[p] = "none"
    /\ seen[p] = "none"
    /\ seen' = [seen EXCEPT ![p] = venv_state]
    /\ LET ran == ok /\ venv_state = "complete"
       IN  /\ cmds' = [cmds EXCEPT ![p] = Append(@, Cmd("site", "venv", ran))]
           /\ IF ran
              THEN /\ sites' = [sites EXCEPT ![p] = SitePackages(mat_pex)]
                   /\ UNCHANGED call_error
              ELSE /\ call_error' = [call_error EXCEPT ![p] = "CalledProcessError"]
                   /\ UNCHANGED sites
    /\ UNCHANGED <<lockVars, ncalls>>
    /\ UNCHANGED <<mat_pex, tool_file, tool, mpc, venv_tmp, venv_state>>
    /\ UNCHANGED <<importState, facadeVars, dlVars, keyVars, pureVars>>

\* the process calls mount(pex_to_mount) again
MatAgain(p) ==
    /\ lpc[p] = "done"
    /\ call_error[p] # "none" \/ seen[p] # "none"
    /\ ncalls < MaxCalls
    /\ ncalls' = ncalls + 1
    /\ lpc' = [lpc EXCEPT ![p] = "start"]
    /\ token' = [token EXCEPT ![p] = "unset"]
    /\ body_result' = [body_result EXCEPT ![p] = "none"]
    /\ call_error' = [call_error EXCEPT ![p] = "none"]
    /\ tool' = [tool EXCEPT ![p] = "primary"]
    /\ mpc' = [mpc EXCEPT ![p] = "info"]
    /\ cmds' = [cmds EXCEPT ![p] = <<>>]
    /\ venv_tmp' = [venv_tmp EXCEPT ![p] = "none"]
    /\ sites' = [sites EXCEPT ![p] = <<>>]
    /\ seen' = [seen EXCEPT ![p] = "none"]
    /\ UNCHANGED <<target_exists, lock_holder, mat_pex, tool_file, venv_state>>
    /\ UNCHANGED <<importState, facadeVars, dlVars, keyVars, pureVars>>

(***************************************************************************)
(* The venv cache key of PexManager.mount                                  *)
(***************************************************************************)
Bytes == {0, 1}

\* the contents of a file: a non-empty sequence of bytes
Blobs == UNION {[1..n -> Bytes] : n \in 1..MaxBlob}

PexNames == {"a.pex", "b.pex"}

PexFiles == {[name |-> n, bytes |-> b] : n \in PexNames, b \in Blobs}

\* hashlib.sha1 over the bytes it was fed: a digest that tells any two
\* different byte streams apart (the stream read as a numeral in base 3)
RECURSIVE Sha1(_)
Sha1(stream) ==
    IF stream = <<>> THEN 0 ELSE (Head(stream) + 1) + 3 * Sha1(Tail(stream))

\* hasher.update(current_interpreter.read_bytes());
\* hasher.update(pex_to_mount.read_bytes()); hasher.hexdigest()
Fingerprint(interp, bytes) == Sha1(interp \o bytes)

\* venv = _CACHE / "venvs" / fingerprint / pex_to_mount.name
VenvPath(interp, pexfile) == <<Fingerprint(interp, pexfile.bytes), pexfile.name>>

NoMount == [interp |-> <<>>, pex |-> [name |-> "none", bytes |-> <<>>],
            dir |-> <<>>, reused |-> FALSE, built_for |-> <<>>]

\* a kernel whose sys.executable holds `interp` mounts `pexfile`: the venv
\* is built when creation_lock finds no directory at its path, used as it is
\* otherwise
KeyMount(interp, pexfile) ==
    LET dir == VenvPath(interp, pexfile)
        hits == {b \in key_built : b.dir = dir}
    IN  /\ IF hits = {}
           THEN /\ Cardinality(key_built) < MaxVenvs
                /\ key_built' = key_built \cup
                       {[dir |-> dir, interp |-> interp, bytes |-> pexfile.bytes]}
                /\ key_last' = [interp |-> interp, pex |-> pexfile, dir |-> dir,
                                reused |-> FALSE, built_for |-> <<interp, pexfile.bytes>>]
           ELSE /\ UNCHANGED key_built
                /\ key_last' = [interp |-> interp, pex |-> pexfile, dir |-> dir,
                                reused |-> TRUE,
                                built_for |-> LET b == CHOOSE h \in hits : TRUE
                                              IN  <<b.interp, b.bytes>>]
        /\ UNCHANGED <<importState, facadeVars, lockVars, callVars, dlVars, matVars,
                       pureVars>>

(***************************************************************************)
(* PexManager.IncompatibleError                                            *)
(***************************************************************************)
\* sys.executable and sys.version_info[:3] of the kernel
CurrentInterpreter == "/usr/bin/python3.10"
VersionInfo == <<3, 10, 2>>

\* the interpreters the pex tool may report
OtherInterpreters == {"/usr/bin/python3.6", "/usr/bin/python3.9"}

ConstraintStrings == {"CPython>=3.6", "CPython<3.10"}

SeqsUpTo(S, n) == UNION {[1..k -> S] : k \in 0..n}

\* sep.join(parts), as the sequence of the pieces of the resulting string
RECURSIVE Join(_, _)
Join(parts, sep) ==
    IF Len(parts) = 0 THEN <<>>
    ELSE IF Len(parts) = 1 THEN <<Head(parts)>>
    ELSE <<Head(parts), sep>> \o Join(Tail(parts), sep)

\* a message whose list is numbered from 0
MessageFromZero(pex, constraints, listing) ==
    << <<"The current interpreter", CurrentInterpreter, "has version",
         Join(VersionInfo, ".")>>,
       <<"This is not compatible with the PEX at", pex>>,
       <<"It has interpreter constraints", Join(constraints, " or ")>>,
       <<"There are", Len(listing), "compatible interpreters on this system:">> >>
        \o [i \in 1..Len(listing) |-> <<i - 1, ".)", listing[i]>>]

\* IncompatibleError.__init__: the lines of the message
Message(pex, constraints, listing) ==
    << <<"The current interpreter", CurrentInterpreter, "has version",
         Join(VersionInfo, ".")>>,
       <<"This is not compatible with the PEX at", pex>>,
       <<"It has interpreter constraints", Join(constraints, " or ")>>,
       <<"There are", Len(listing), "compatible interpreters on this system:">> >>
        \o [i \in 1..Len(listing) |-> <<i, ".)", listing[i]>>]

\* raise self.IncompatibleError(pex_to_mount, interpreter_constraints=
\* pex_info["interpreter_constraints"], compatible_interpreters=<the paths
\* `interpreter --all -v` printed>)
RaiseIncompatible(pex, constraints, listing) ==
    /\ message' = Message(pex, constraints, listing)
    /\ msg_args' = [pex |-> pex, constraints |-> constraints, listing |-> listing]
    /\ UNCHANGED <<importState, facadeVars, lockVars, callVars, dlVars, matVars,
                   keyVars, extractVars, spinVars>>

(***************************************************************************)
(* _PexEnvironmentBootstrapper._extract_resulting_binary                   *)
(***************************************************************************)
\* what a build may leave under its output directory: the path below the
\* directory, and whether the entry is a regular file or a directory (a pex
\* built with a packed or loose layout is a directory named *.pex)
DirEntries ==
    {[path |-> <<"bin.pex">>, kind |-> "file"],
     [path |-> <<"src.app", "bin.pex">>, kind |-> "file"],
     [path |-> <<"lib.pex">>, kind |-> "dir"],
     [path |-> <<"lib.pex", "pex">>, kind |-> "file"],
     [path |-> <<"log.txt">>, kind |-> "file"]}

Extensions == {"pex", "txt"}

\* the extension of the last component of a path
Suffix(path) ==
    LET name == path[Len(path)]
    IN  IF name \in {"bin.pex", "lib.pex"} THEN "pex"
        ELSE IF name = "log.txt" THEN "txt"
        ELSE "none"

\* build_dir.rglob(f"*.{extension}"): every entry below the directory, at
\* any depth, whose name ends in the extension; directories are entries too
Rglob(dir, extension) == {e \in dir : Suffix(e.path) = extension}

NoExtraction ==
    [kind |-> "none", found |-> 0, path |-> <<>>, extension |-> "none", dir |-> {}]

\* the build writes an entry below its output directory
BuildWrites(e) ==
    /\ e \notin build_dir
    /\ Cardinality(build_dir) < MaxEntries
    /\ Len(e.path) > 1 =>
           [path |-> SubSeq(e.path, 1, Len(e.path) - 1), kind |-> "dir"] \in
               build_dir \cup {[path |-> <<"src.app">>, kind |-> "dir"]}
    /\ build_dir' = build_dir \cup {e}
    /\ UNCHANGED extracted
    /\ UNCHANGED <<importState, facadeVars, lockVars, callVars, dlVars, matVars,
                   keyVars, msgVars, spinVars>>

\* _extract_resulting_binary(build_dir, extension)
ExtractResultingBinary(extension) ==
    /\ LET binaries == Rglob(build_dir, extension)
       IN  extracted' =
               IF Cardinality(binaries) # 1
               THEN [kind |-> "BuildFailure", found |-> Cardinality(binaries),
                     path |-> <<>>, extension |-> extension, dir |-> build_dir]
               ELSE [kind |-> "returned", found |-> 1,
                     path |-> (CHOOSE e \in binaries : TRUE).path,
                     extension |-> extension, dir |-> build_dir]
    /\ UNCHANGED build_dir
    /\ UNCHANGED <<importState, facadeVars, lockVars, callVars, dlVars, matVars,
                   keyVars, msgVars, spinVars>>

(***************************************************************************)
(* _PexEnvironmentBootstrapper._stream_binary_build_with_output            *)
(***************************************************************************)
\* len(SPINNER_SEQ)
SpinnerLen == 10

ExecEnded == exec_pc \in {"returned", "raised"}

\* p = await asyncio.create_subprocess_shell(cmd, ...)
ExecStart(ok) ==
    /\ exec_pc = "start"
    /\ exec_pc' = IF ok THEN "read" ELSE "raised"
    /\ UNCHANGED <<spin_pc, is_complete, lines_read, glyph, run_result>>
    /\ UNCHANGED <<importState, facadeVars, lockVars, callVars, dlVars, matVars,
                   keyVars, msgVars, extractVars>>

\* line = await p.stdout.readline(); if not line: break
ExecReadLine(outcome) ==
    /\ exec_pc = "read"
    /\ outcome = "line" => lines_read < MaxLines
    /\ exec_pc' = CASE outcome = "line" -> "display"
                    [] outcome = "eof" -> "wait"
                    [] OTHER -> "raised"
    /\ UNCHANGED <<spin_pc, is_complete, lines_read, glyph, run_result>>
    /\ UNCHANGED <<importState, facadeVars, lockVars, callVars, dlVars, matVars,
                   keyVars, msgVars, extractVars>>

\* display(line.decode())
ExecDisplay(ok) ==
    /\ exec_pc = "display"
    /\ IF ok
       THEN /\ lines_read' = lines_read + 1
            /\ exec_pc' = "read"
       ELSE /\ exec_pc' = "raised"
            /\ UNCHANGED lines_read
    /\ UNCHANGED <<spin_pc, is_complete, glyph, run_result>>
    /\ UNCHANGED <<importState, facadeVars, lockVars, callVars, dlVars, matVars,
                   keyVars, msgVars, extractVars>>

\* try: return_code = await p.wait()  finally: is_complete.set()
ExecWait(ok, code) ==
    /\ exec_pc = "wait"
    /\ is_complete' = TRUE
    /\ IF ok
       THEN /\ exec_pc' = "returned"
            /\ run_result' = [run_result EXCEPT !.code = code]
       ELSE /\ exec_pc' = "raised"
            /\ UNCHANGED run_result
    /\ UNCHANGED <<spin_pc, lines_read, glyph>>
    /\ UNCHANGED <<importState, facadeVars, lockVars, callVars, dlVars, matVars,
                   keyVars, msgVars, extractVars>>

\* while not is_complete.is_set(): set_glyph(next(spin_provider))
SpinCheck ==
    /\ spin_pc = "check"
    /\ IF is_complete
       THEN /\ spin_pc' = "done"
            /\ UNCHANGED glyph
       ELSE /\ glyph' = (glyph % SpinnerLen) + 1
            /\ spin_pc' = "sleep"
    /\ UNCHANGED <<exec_pc, is_complete, lines_read, run_result>>
    /\ UNCHANGED <<importState, facadeVars, lockVars, callVars, dlVars, matVars,
                   keyVars, msgVars, extractVars>>

\* await asyncio.sleep(spin_refresh_rate)
SpinSleep ==
    /\ spin_pc = "sleep"
    /\ spin_pc' = "check"
    /\ UNCHANGED <<exec_pc, is_complete, lines_read, glyph, run_result>>
    /\ UNCHANGED <<importState, facadeVars, lockVars, callVars, dlVars, matVars,
                   keyVars, msgVars, extractVars>>

\* run_async: asyncio.wait(tasks, return_when=ALL_COMPLETED) returns, then
\* task.result() re-raises or the return code decides
RunAsyncFinish ==
    /\ run_result.kind = "running"
    /\ ExecEnded
    /\ spin_pc = "done"
    /\ run_result' =
           [run_result EXCEPT !.kind =
               IF exec_pc = "raised" THEN "raised"
               ELSE IF run_result.code # 0 THEN "SubprocessFailure"
               ELSE "returned"]
    /\ UNCHANGED <<exec_pc, spin_pc, is_complete, lines_read, glyph>>
    /\ UNCHANGED <<importState, facadeVars, lockVars, callVars, dlVars, matVars,
                   keyVars, msgVars, extractVars>>

(***************************************************************************)
(* Initial states and specifications                                       *)
(***************************************************************************)
\* the interpreter as the plugin finds it at %load_ext
HostStates ==
    { [path |-> <<Host(EmptyEntry), Host(ZipEntry), Host(HostSite)>>,
       modules |-> {Builtin("sys"), Module("os", HostSite)},
       disk |-> {"host"}],
      [path |-> <<Host(HostSite)>>,
       modules |-> {Builtin("sys"), Module("os", HostSite)},
       disk |-> {"host"}],
      [path |-> <<Host(HostSite), Host(<<"va", "lib">>)>>,
       modules |-> {Builtin("sys"), Module("os", HostSite),
                    Module("colors", <<"va", "lib", "colors">>)},
       disk |-> {"host", "va"}] }

Init ==
    /\ \E h \in HostStates :
          /\ sys_path = h.path
          /\ sys_modules = h.modules
          /\ disk = h.disk
          /\ originating = Loaded(h.modules)
          /\ load_snap = [path |-> h.path, modules |-> h.modules, mounted |-> <<>>]
          /\ mount_snap = [path |-> h.path, modules |-> h.modules, mounted |-> <<>>,
                           gen |-> 0]
    /\ mounted = <<>>
    /\ fallback_pex = FALSE
    /\ pc = "idle"
    /\ cur_pex = "a.pex"
    /\ pending = <<>>
    /\ error = "none"
    /\ raised_in = "none"
    /\ loads = 0
    /\ cycle = "none"
    /\ surfaced = "none"
    /\ attempts = [downloads |-> 0, builds |-> 0]
    /\ magic_out = [kind |-> "none", code |-> 0]
    /\ target_exists = FALSE
    /\ lock_holder = 0
    /\ lpc = [p \in Procs |-> "start"]
    /\ token = [p \in Procs |-> "unset"]
    /\ body_result = [p \in Procs |-> "none"]
    /\ call_error = [p \in Procs |-> "none"]
    /\ ncalls = 0
    /\ tmp_file = [p \in Procs |-> NoFile]
    /\ dest_file = NoFile
    /\ transfers = 0
    /\ mat_pex = "none"
    /\ tool_file = FALSE
    /\ tool = [p \in Procs |-> "primary"]
    /\ mpc = [p \in Procs |-> "info"]
    /\ cmds = [p \in Procs |-> <<>>]
    /\ venv_tmp = [p \in Procs |-> "none"]
    /\ venv_state = "absent"
    /\ sites = [p \in Procs |-> <<>>]
    /\ seen = [p \in Procs |-> "none"]
    /\ key_built = {}
    /\ key_last = NoMount
    /\ message = <<>>
    /\ msg_args = [pex |-> "none", constraints |-> <<>>, listing |-> <<>>]
    /\ build_dir = {}
    /\ extracted = NoExtraction
    /\ exec_pc = "start"
    /\ spin_pc = "check"
    /\ is_complete = FALSE
    /\ lines_read = 0
    /\ glyph = 0
    /\ run_result = [kind |-> "running", code |-> 0]

Next ==
    \/ \E pex \in Pexes : PexLoad(pex)
    \/ UnmountStep
    \/ UnmountDone
    \/ \E outcome \in Outcomes : MountMaterialize(outcome)
    \/ MountStep
    \/ MountDone
    \/ MountAbandon
    \/ BootstrapExcept
    \/ \E inv \in Invocations : MagicRejected(inv)
    \/ \E m \in ModuleNames : Import(m)
    \/ \E dir \in {"va", "vb"} : RemoveDir(dir)

Spec == Init /\ [][Next]_vars

NextLock ==
    \E p \in Procs :
        \/ LockEnter(p)
        \/ LockAcquire(p)
        \/ LockRecheck(p)
        \/ BodyCreate(p)
        \/ BodyRaise(p)
        \/ BodySkip(p)
        \/ LockExit(p)

SpecLock == Init /\ [][NextLock]_vars

\* every caller keeps running, and every body ends; FileLock.acquire blocks
\* without a timeout until the lock is free
LockFairness ==
    \A p \in Procs :
        /\ WF_vars(LockEnter(p))
        /\ WF_vars(LockAcquire(p))
        /\ WF_vars(LockRecheck(p))
        /\ WF_vars(BodyCreate(p) \/ BodyRaise(p) \/ BodySkip(p))
        /\ WF_vars(LockExit(p))

SpecLockFair == Init /\ [][NextLock]_vars /\ LockFairness

NextDownload ==
    \E p \in Callers :
        \/ LockEnter(p)
        \/ LockAcquire(p)
        \/ LockRecheck(p)
        \/ \E resp \in Responses : DlGet(p, resp)
        \/ \E delivered \in BOOLEAN : DlChunk(p, delivered)
        \/ DlPostProcess(p)
        \/ DlRename(p)
        \/ BodySkip(p)
        \/ LockExit(p)
        \/ DlAgain(p)

SpecDownload == Init /\ [][NextDownload]_vars

NextMat ==
    \/ \E pex \in Pexes : MatChoose(pex)
    \/ \E p \in Callers :
        \/ MatEnter(p)
        \/ LockAcquire(p)
        \/ LockRecheck(p)
        \/ \E ok \in BOOLEAN : MatInfo(p, ok)
        \/ \E ok \in BOOLEAN : MatFallback(p, ok)
        \/ \E ok, listed \in BOOLEAN : MatSelect(p, ok, listed)
        \/ MatBuildStart(p)
        \/ \E ok \in BOOLEAN : MatBuildEnd(p, ok)
        \/ MatRename(p)
        \/ BodySkip(p)
        \/ LockExit(p)
        \/ \E ok \in BOOLEAN : MatQuery(p, ok)
        \/ MatAgain(p)

SpecMat == Init /\ [][NextMat]_vars

NextKey == \E interp \in Blobs, pexfile \in PexFiles : KeyMount(interp, pexfile)

SpecKey == Init /\ [][NextKey]_vars

NextMessage ==
    \E pex \in {"c.pex", "d.pex"}, constraints \in SeqsUpTo(ConstraintStrings, 2),
       listing \in SeqsUpTo(OtherInterpreters, MaxListed) :
        RaiseIncompatible(pex, constraints, listing)

SpecMessage == Init /\ [][NextMessage]_vars

NextExtract ==
    \/ \E e \in DirEntries : BuildWrites(e)
    \/ \E extension \in Extensions : ExtractResultingBinary(extension)

SpecExtract == Init /\ [][NextExtract]_vars

NextSpin ==
    \/ \E ok \in BOOLEAN : ExecStart(ok)
    \/ \E outcome \in {"line", "eof", "raise"} : ExecReadLine(outcome)
    \/ \E ok \in BOOLEAN : ExecDisplay(ok)
    \/ \E ok \in BOOLEAN, code \in {0, 2} : ExecWait(ok, code)
    \/ SpinCheck
    \/ SpinSleep
    \/ RunAsyncFinish

SpecSpin == Init /\ [][NextSpin]_vars

(***************************************************************************)
(* Properties                                                              *)
(***************************************************************************)
SamePaths(snap) ==
    /\ sys_path = snap.path
    /\ sys_modules = snap.modules
    /\ mounted = snap.mounted

\* search-path entries appended by the most recent mount
AddedByLastMount ==
    {sys_path[i].entry : i \in {j \in DOMAIN sys_path :
        mount_snap.gen > 0 /\ sys_path[j].gen = mount_snap.gen}}

Creators == {p \in Procs : token[p] = "lock_file"}
InBody(p) == lpc[p] \in {"body", "exit"}
AllDone == \A p \in Procs : lpc[p] = "done"

\* C1: a mount run to completion followed by an unmount run to completion,
\* with no import in between, leaves sys.path and sys.modules exactly as they
\* were before the mount, and the Mount Record empty.
C1_InverseLaw ==
    cycle = "unmounted" =>
        /\ sys_path = mount_snap.path
        /\ sys_modules = mount_snap.modules
        /\ mounted = <<>>

\* C2: a module that was in sys.modules when the plugin was loaded is never
\* removed from sys.modules.
C2_BaselineProtection == originating \subseteq Loaded(sys_modules)

\* C3: in every state, suspension points of the generators included, the set
\* of recorded paths equals the set of sys.path entries appended by the most
\* recent mount.
C3_MountRecordInvariant == Recorded(mounted) = AddedByLastMount

\* C4: an unmount iteration removes from sys.path only the entries that are
\* non-empty, exist on disk and are the same file as the recorded path; all
\* other entries stay, in their order.
C4_UnmountFrame ==
    [][(pc = "unmount" /\ pc' = "unmount" /\ Len(mounted') < Len(mounted)) =>
         sys_path' = SelectSeq(sys_path, LAMBDA e :
            ~(e.entry # <<>> /\ Exists(e.entry, disk)
                /\ Samefile(mounted[Len(mounted)].path, e.entry)))]_vars

\* C5: no two processes are inside the lock body with a creator token at the
\* same time.
C5_CreatorMutex ==
    \A p, q \in Procs :
        (p # q /\ InBody(p) /\ InBody(q)) =>
            ~(token[p] = "lock_file" /\ token[q] = "lock_file")

C5_Witness ==
    \E p, q \in Procs :
        /\ lpc[p] = "body" /\ token[p] = "lock_file"
        /\ lpc[q] = "wait"

\* C6 as stated: once all callers are through, exactly one of them observed a
\* creator token and the target exists.
C6_ExactlyOneCreator ==
    AllDone => (Cardinality(Creators) = 1 /\ target_exists)

\* C6 amended: at most one caller's body creates the target; when no
\* creator's body raised, exactly one caller observed a creator token; and a
\* caller that observes a creator token does so only while no body has
\* created the target (every creator before it raised).
C6_AtMostOneCreation ==
    /\ Cardinality({p \in Procs : body_result[p] = "created"}) <= 1
    /\ (AllDone /\ \A p \in Procs : body_result[p] # "raised") =>
           (Cardinality(Creators) = 1 /\ target_exists)
    /\ \A p \in Procs :
           (token[p] = "lock_file" /\ lpc[p] = "body") =>
               /\ ~target_exists
               /\ \A q \in Creators \ {p} : body_result[q] = "raised"
    /\ target_exists => \E p \in Procs : body_result[p] = "created"

C6_Witness ==
    /\ AllDone
    /\ \E p, q \in Procs : body_result[p] = "raised" /\ body_result[q] = "created"
    /\ \E p \in Procs : body_result[p] = "skipped"

\* C7: in every load the Mount Record is empty when mount is called, and
\* while mount appends, the record holds entries of the current load only.
C7_FacadeOrdering ==
    /\ pc = "materialize" => mounted = <<>>
    /\ pc = "mount" => \A i \in DOMAIN mounted : mounted[i].gen = loads
    /\ \A i \in DOMAIN sys_path : \A j \in DOMAIN mounted :
           sys_path[i].gen > 0 => mounted[j].gen >= sys_path[i].gen

C7_Witness ==
    /\ pc = "mount"
    /\ load_snap.mounted # <<>>
    /\ mounted # <<>>
    /\ pending # <<>>

\* C8: after a load that succeeded, the Mount Record holds exactly the site
\* paths of the loaded environment, in the reported order, all of this load,
\* and each of them is on sys.path.
C8_LastLoadMounted ==
    (pc = "idle" /\ loads > 0 /\ error = "none") =>
        /\ [i \in DOMAIN mounted |-> mounted[i].path] = SitePackages(cur_pex)
        /\ \A i \in DOMAIN mounted : mounted[i].gen = loads
        /\ Recorded(mounted) \subseteq Entries(sys_path)

C8_Witness ==
    /\ pc = "idle" /\ error = "none"
    /\ loads > 1
    /\ cur_pex = "a.pex"
    /\ load_snap.mounted # <<>>

\* C9: when mount raises during materialization, sys.path, sys.modules and
\* the Mount Record are as they were when mount was called.
C9_MaterializeFailureFrame ==
    (pc = "except" /\ raised_in = "mount") => SamePaths(mount_snap)

C9_Witness ==
    /\ pc = "except" /\ raised_in = "mount"
    /\ error = "IncompatibleError"
    /\ loads > 1

\* C10: a load that fails with IncompatibleError or DownloadError leaves
\* sys.path, sys.modules and the Mount Record as they were when the load
\* began.
C10_FailedLoadFrame ==
    (pc = "except" /\ error \in {"IncompatibleError", "DownloadError"}) =>
        SamePaths(load_snap)

\* C17: when the unmount generator has ended, by exhaustion or by raising,
\* the Mount Record is empty.
C17_UnmountDrains ==
    (pc = "materialize" \/ (pc = "except" /\ raised_in = "unmount")) =>
        mounted = <<>>

\* C18: a caller that has left creation_lock does not hold the lock, whether
\* its body ended normally or raised; the lock has a holder only between that
\* caller's acquire and its exit; and a caller that got the lock after waiting
\* holds a token that matches the target's existence under the lock.
C18_LockReleased ==
    /\ \A p \in Procs : lpc[p] = "done" => lock_holder # p
    /\ \A p \in Procs : lock_holder = p => lpc[p] \in {"locked", "body", "exit"}
    /\ \A p \in Procs :
           (lock_holder = p /\ lpc[p] = "body") => token[p] = Yielded(target_exists)

C18_Witness ==
    \E p, q \in Procs :
        /\ lpc[p] = "done" /\ body_result[p] = "raised"
        /\ lock_holder = q /\ lpc[q] = "body" /\ token[q] = "lock_file"

\* C19: when a load has ended, the facade has raised to its caller exactly
\* the error the core raised (none when the load succeeded), and the load made
\* at most one download attempt and at most one environment build.
C19_ErrorPropagation ==
    (pc = "idle" /\ loads > 0) =>
        /\ surfaced = error
        /\ attempts.downloads <= 1
        /\ attempts.builds <= 1

C19_Witness ==
    /\ pc = "idle"
    /\ surfaced = "DownloadError"
    /\ attempts = [downloads |-> 1, builds |-> 0]

C12_IdempotentFetch ==
    /\ [][target_exists =>
            (target_exists' /\ dest_file' = dest_file /\ transfers' = transfers)]_vars
    /\ [](\A p \in Callers :
            body_result[p] \in {"fast", "skipped"} => tmp_file[p] = NoFile)
    /\ []((target_exists /\ ncalls = 0) =>
            transfers = Cardinality({p \in Callers :
                            body_result[p] \in {"created", "raised"}}))

C12_Witness ==
    /\ ncalls > 0
    /\ transfers = 1
    /\ \E p \in Callers : lpc[p] = "done" /\ body_result[p] = "fast"

\* C13: the destination exists exactly when a file was renamed onto it, and
\* that file came with a success status, was streamed completely, is a zip
\* and is executable; a call that got a non-success status, or whose download
\* is not a zip, raised DownloadError; and a call that raised created nothing.
C13_DestinationComplete ==
    /\ target_exists <=> dest_file.state = "file"
    /\ dest_file.state = "file" =>
          /\ dest_file.ok /\ dest_file.chunks = NumChunks
          /\ dest_file.kind = "zip" /\ dest_file.exec
    /\ \A p \in Callers :
          /\ (tmp_file[p].state = "open" /\ ~tmp_file[p].ok) =>
                 call_error[p] = "DownloadError"
          /\ (tmp_file[p].state = "open" /\ tmp_file[p].chunks = NumChunks
                /\ tmp_file[p].kind # "zip" /\ lpc[p] # "body") =>
                 call_error[p] = "DownloadError"
          /\ call_error[p] # "none" =>
                 (body_result[p] = "raised" /\ tmp_file[p].state # "processed")

C13_Witness ==
    /\ target_exists
    /\ \E p \in Callers :
          /\ call_error[p] = "DownloadError"
          /\ tmp_file[p].ok /\ tmp_file[p].kind = "html"
          /\ tmp_file[p].chunks = NumChunks

\* C14: the venv directory is either absent or completely built, whatever
\* the callers do, and every site-path query ran against a complete venv.
C14_VenvAtomic ==
    /\ venv_state \in {"absent", "complete"}
    /\ target_exists <=> venv_state = "complete"
    /\ \A p \in Callers : seen[p] \in {"none", "complete"}

C14_Witness ==
    \E p, q \in Callers :
        /\ body_result[p] = "created" /\ Ran(p, "venv") # {}
        /\ body_result[q] = "skipped" /\ seen[q] = "complete"

\* C15: a mount that found the venv directory present, at once or after
\* waiting for the lock, has run nothing but the site-path query, and every
\* query that returned gave the site paths of the venv, in the same order.
C15_IdempotentMaterialization ==
    \A p \in Callers :
        /\ body_result[p] \in {"fast", "skipped"} =>
              /\ \A i \in DOMAIN cmds[p] : cmds[p][i].cmd = "site"
              /\ Len(cmds[p]) <= 1
              /\ venv_tmp[p] = "none"
        /\ sites[p] \in {<<>>, SitePackages(mat_pex)}
        /\ (seen[p] # "none" /\ call_error[p] = "none") =>
              sites[p] = SitePackages(mat_pex)

C15_Witness ==
    /\ ncalls > 0
    /\ \E p, q \in Callers :
          /\ body_result[p] = "fast" /\ sites[p] = SitePackages(mat_pex)
          /\ body_result[q] = "created" /\ sites[q] = sites[p]

\* C16 as stated: for a pex file without pex_hash, a call that has switched
\* to the fallback tool has run `info` with the fallback tool.
C16_FallbackRetriesInfo ==
    \A p \in Callers :
        (mat_pex # "none" /\ ~HasPexHash(mat_pex) /\ tool[p] = "fallback") =>
            \E i \in Ran(p, "info") : cmds[p][i].tool = "fallback"

\* C16 amended: `info` runs once per call and with the primary tool; for a
\* pex file without pex_hash the call goes on (it raises only if the fallback
\* tool cannot be downloaded) and runs interpreter selection, listing and the
\* venv build with the fallback tool; for a pex file with pex_hash all of
\* them run with the primary tool.
C16_FallbackTool ==
    \A p \in Callers :
        /\ Cardinality(Ran(p, "info")) <= 1
        /\ \A i \in Ran(p, "info") : cmds[p][i].tool = "primary"
        /\ \A i \in Ran(p, "interpreter") \cup Ran(p, "interpreter --all")
                        \cup Ran(p, "venv") :
              cmds[p][i].tool = IF HasPexHash(mat_pex) THEN "primary" ELSE "fallback"
        /\ tool[p] = "fallback" => (~HasPexHash(mat_pex) /\ tool_file)
        /\ (call_error[p] = "DownloadError") =>
              (~HasPexHash(mat_pex) /\ ~cmds[p][Len(cmds[p])].ok
                 /\ cmds[p][Len(cmds[p])].cmd = "download")

C16_Witness ==
    /\ mat_pex = "b.pex"
    /\ venv_state = "complete"
    /\ \E p \in Callers :
          /\ body_result[p] = "created"
          /\ \E i \in Ran(p, "venv") : cmds[p][i].tool = "fallback"
          /\ \E i \in Ran(p, "info") : cmds[p][i].tool = "primary"

\* C20: a mount that uses a venv directory that was already there has the
\* interpreter bytes and the pex bytes the directory was built for.
C20_CacheKeyIsolation ==
    key_last.reused => key_last.built_for = <<key_last.interp, key_last.pex.bytes>>

\* a module whose origin file lies under path r, whatever the spelling
OriginUnder(m, r) == m.hasfile /\ Resolve(r) \in Parents(Resolve(m.dir))

\* C23: an unmount iteration for a recorded path purges exactly the modules
\* whose origin lies under that path, however the origin or the path is
\* spelled, and after unmount has completed no module has its origin under a
\* path that was recorded when the unmount began.
C23_PurgeBySameDirectory ==
    /\ [][(pc = "unmount" /\ pc' = "unmount" /\ Len(mounted') < Len(mounted)) =>
             sys_modules' = {m \in sys_modules :
                                ~OriginUnder(m, mounted[Len(mounted)].path)}]_vars
    /\ [](pc = "materialize" =>
             \A m \in sys_modules : \A r \in Recorded(load_snap.mounted) :
                 ~OriginUnder(m, r))

\* the paths of a Mount Record, in order
RecordedPaths(rec) == [i \in DOMAIN rec |-> rec[i].path]

\* C24: a mount step appends the next site path to the end of sys.path and
\* to the end of the Mount Record in one step and leaves sys.modules alone;
\* while mount runs, sys.path is what it was when mount was called followed
\* by the site paths appended so far, in their order.
C24_MountAppends ==
    /\ [][(pc = "mount" /\ Len(mounted') > Len(mounted)) =>
             /\ sys_path' = Append(sys_path, [entry |-> Head(pending), gen |-> loads])
             /\ mounted' = Append(mounted, [path |-> Head(pending), gen |-> loads])
             /\ sys_modules' = sys_modules]_vars
    /\ [](pc = "mount" =>
             /\ RecordedPaths(mounted) =
                    SubSeq(SitePackages(cur_pex), 1, Len(mounted))
             /\ sys_path = mount_snap.path \o
                    [i \in DOMAIN mounted |-> [entry |-> mounted[i].path, gen |-> loads]]
             /\ sys_modules = mount_snap.modules)

C24_Witness ==
    /\ pc = "mount"
    /\ Len(mounted) = 2
    /\ Len(mount_snap.path) > 1

\* C25: when the facade leaves the mount loop after k site paths, exactly the
\* first k site paths are on sys.path behind the entries that were there, and
\* in the Mount Record, in order; and when an unmount has run to completion,
\* the record is empty and none of the paths it held is on sys.path.
C25_PartialMount ==
    /\ (pc = "except" /\ raised_in = "display") =>
          /\ Len(mounted) >= 1
          /\ RecordedPaths(mounted) = SubSeq(SitePackages(cur_pex), 1, Len(mounted))
          /\ sys_path = mount_snap.path \o
                 [i \in DOMAIN mounted |-> [entry |-> mounted[i].path, gen |-> loads]]
    /\ pc = "materialize" =>
          /\ mounted = <<>>
          /\ Recorded(load_snap.mounted) \cap Entries(sys_path) = {}

C25_Witness ==
    /\ pc = "materialize"
    /\ Len(load_snap.mounted) = 1
    /\ load_snap.mounted[1].path = <<"va", "lib">>
    /\ \A i \in DOMAIN load_snap.path :
          load_snap.path[i].gen = load_snap.mounted[1].gen =>
              load_snap.path[i].entry = <<"va", "lib">>

\* C28: when unmount has raised, every sys.path entry that a mount appended
\* is in the Mount Record.
C28_NoOrphan ==
    (pc = "except" /\ raised_in = "unmount") =>
        \A i \in DOMAIN sys_path :
            sys_path[i].gen > 0 => sys_path[i].entry \in Recorded(mounted)

\* C29: a magic invocation that ends before _bootstrap_pex changes neither
\* sys.path nor sys.modules nor the Mount Record and starts no load; a
\* SubprocessFailure carries the command's non-zero exit code.
C29_RejectedMagicFrame ==
    /\ [][(magic_out' # magic_out /\ magic_out'.kind # "bootstrap") =>
             UNCHANGED <<sys_path, sys_modules, mounted, pc, loads>>]_vars
    /\ [](magic_out.kind \notin {"none", "bootstrap"} => pc = "idle")
    /\ [](magic_out.kind = "SubprocessFailure" => magic_out.code # 0)

C29_Witness ==
    /\ magic_out.kind = "BuildFailure"
    /\ mounted # <<>>
    /\ pc = "idle"

\* C26: a caller that enters while the target exists goes to its body with
\* None and the lock is not touched, whoever holds it; such a caller never
\* holds the lock; and a caller that got the lock is yielded the lock file
\* exactly when the target does not exist at the check it makes under the lock.
C26_FastPathAndRecheck ==
    /\ [][\A p \in Procs :
             (lpc[p] = "start" /\ lpc'[p] # "start" /\ target_exists) =>
                 (lpc'[p] = "body" /\ token'[p] = "None"
                    /\ lock_holder' = lock_holder)]_vars
    /\ [](\A p \in Procs :
             body_result[p] = "fast" => (token[p] = "None" /\ lock_holder # p))
    /\ [][\A p \in Procs :
             (lpc[p] = "locked" /\ lpc'[p] = "body") =>
                 (token'[p] = "lock_file" <=> ~target_exists)]_vars

C26_Witness ==
    \E p, q \in Procs :
        /\ p # q
        /\ lpc[p] = "body" /\ body_result[p] = "fast"
        /\ lock_holder = q /\ body_result[q] = "created"

\* C27: under fair scheduling and bodies that end, every caller eventually
\* leaves creation_lock; and as long as the lock is held, no waiting caller
\* can acquire it.
C27_DeadlockFreedom ==
    /\ \A p \in Procs : <>(lpc[p] = "done")
    /\ [](\A p \in Procs :
             (lpc[p] = "wait" /\ lock_holder # 0) => ~ENABLED LockAcquire(p))

C27_Witness ==
    /\ AllDone
    /\ lock_holder = 0
    /\ \E p, q \in Procs : body_result[p] = "raised" /\ body_result[q] = "skipped"

\* the lines of the message after the four header lines
ListLines == SubSeq(message, 5, Len(message))

MessageHeader ==
    /\ Len(message) >= 4
    /\ message[1][2] = CurrentInterpreter
    /\ message[1][4] = <<3, ".", 10, ".", 2>>
    /\ message[2][2] = msg_args.pex
    /\ message[3][2] = Join(msg_args.constraints, " or ")
    /\ message[4][2] = Len(msg_args.listing)
    /\ Len(ListLines) = message[4][2]
    /\ \A i \in DOMAIN ListLines : ListLines[i] = <<i, ".)", msg_args.listing[i]>>

\* C21 as stated: the message names the interpreter and its version, the pex
\* file, the constraints joined by " or " and the count N, followed by
\* exactly N lines numbered 1..N in the reported order, and N is at least 1.
C21_MessageWithOthers ==
    message # <<>> => (MessageHeader /\ Len(ListLines) >= 1)

\* C21 amended: as above, with N the number of interpreters the tool
\* reported, which the code does not require to be positive.
C21_MessageFormat ==
    message # <<>> => (MessageHeader /\ Len(ListLines) = Len(msg_args.listing))

C21_Witness ==
    /\ Len(message) = 6
    /\ Len(msg_args.constraints) = 2
    /\ msg_args.listing[1] # msg_args.listing[2]

\* the regular files with the extension that the extraction had before it
MatchingFiles ==
    {e \in extracted.dir :
        e.kind = "file" /\ Suffix(e.path) = extracted.extension}

\* C22: extraction returns the path of the matching file when exactly one
\* file below the build output directory has the expected extension, and
\* raises BuildFailure naming the found count when zero or two or more
\* files match.
C22_SingleBinary ==
    extracted.kind # "none" =>
        IF Cardinality(MatchingFiles) = 1
        THEN /\ extracted.kind = "returned"
             /\ \E e \in MatchingFiles : extracted.path = e.path
        ELSE /\ extracted.kind = "BuildFailure"
             /\ extracted.found = Cardinality(MatchingFiles)

\* C30: on every path on which the command task ends (the process exits
\* with any code, or starting it, reading its output or displaying a line
\* raises) the completion event is set, so the spinner loop can terminate
\* and run_async returns or raises.
C30_SpinnerTerminates == ExecEnded => is_complete

====
